---- MODULE Spec2Model ----
(***************************************************************************)
(* A model of the cryptiga/ui backtesting front end and of the backtest    *)
(* engine it drives:                                                       *)
(*   - the compare page   (src/app/backtest/compare/page.tsx)              *)
(*   - the run page       (src/app/backtest/page.tsx)                      *)
(*   - the backtest runner and the technical signal processor listed in    *)
(*     src/docs/plans/2026-02-16-backtest-ui.md                            *)
(* Money is held in mills (1/1000 of a currency unit) and quantities in    *)
(* milli-coins; the floating point of the code is fixed point here.        *)
(***************************************************************************)
EXTENDS Integers, Sequences, FiniteSets, TLC

VARIABLES
    \* ---- compare page (CompareContent) ----
    searchIds,      \* searchParams.get("ids")?.split(",") || []
    runs,           \* useState<Run[]>([])
    cmpLoading,     \* useState(true)
    cmpError,       \* useState("")
    batches,        \* the Promise.all batches still pending
    navCount,       \* how many times the effect has run (mount included)
    navLeft,        \* navigations the environment may still make
    idPool,         \* the run ids the environment navigates among
    lastFailed,     \* a fetch of the current id list's batch has failed
    \* ---- run page (BacktestPage) ----
    params,         \* useState<Params>({ ...DEFAULTS })
    results,        \* useState<Results | null>(null); <<>> is null
    loading,        \* useState(false)
    error,          \* useState("")
    activePreset,   \* useState("default")
    request,        \* the POST /api/backtest/run requests in flight
    lastOutcome,    \* how the last finished attempt ended
    editsLeft,      \* form edits the environment may still make
    \* ---- backtest engine (BacktestRunner.run) ----
    config,         \* the constructor arguments of the runner
    candles,        \* the candle series given to run()
    pc,             \* "idle", "loop", "done"
    idx,            \* the loop variable i of run()
    portfolio,      \* Portfolio: cash and the positions
    trades,         \* executor.trades
    equity_curve,   \* the list of {time, value} points
    peak,           \* running peak of the portfolio value
    max_drawdown,   \* running maximum drawdown
    report,         \* the BacktestReport; <<>> until the run completes
    other,          \* a second, independent run (a record of the same
                    \* fields as the run above); <<>> when there is none
    \* ---- history page (HistoryPage) ----
    histRuns,       \* useState<Run[]>([]), as the ids of the runs
    selected,       \* useState<Set<string>>(new Set()), in insertion order
    histLoading,    \* useState(true)
    histFetch       \* the GET /api/backtest/runs: "pending", "then", "settled"

cmpVars == <<searchIds, runs, cmpLoading, cmpError, batches, navCount, navLeft,
             idPool, lastFailed>>
pageVars == <<params, results, loading, error, activePreset, request,
              lastOutcome, editsLeft>>
engVars == <<config, candles, pc, idx, portfolio, trades, equity_curve, peak,
             max_drawdown, report, other>>
histVars == <<histRuns, selected, histLoading, histFetch>>
vars == <<cmpVars, pageVars, engVars, histVars>>

(***************************************************************************)
(* Bounds of the model.                                                    *)
(***************************************************************************)
NumStored == 12     \* persisted runs the compare page can be pointed at
MaxIds == 3         \* longest id list in the URL
MaxNav == 2         \* id-list changes after which the URL stays put
NavIds == 3         \* ids used when the URL changes repeatedly
NumListed == 6      \* runs in the list of the history page

(***************************************************************************)
(* JavaScript values and conversions used by the pages.                    *)
(***************************************************************************)
Num(n) == [tag |-> "number", n |-> n, s |-> ""]
Str(s) == [tag |-> "string", n |-> 0, s |-> s]
Bool(b) == [tag |-> "boolean", n |-> IF b THEN 1 ELSE 0, s |-> ""]
NullV == [tag |-> "null", n |-> 0, s |-> ""]
Undefined == [tag |-> "undefined", n |-> 0, s |-> ""]

\* String(v)
JsString(v) ==
    CASE v.tag = "number" -> ToString(v.n)
      [] v.tag = "string" -> v.s
      [] v.tag = "boolean" -> IF v.n = 1 THEN "true" ELSE "false"
      [] v.tag = "null" -> "null"
      [] OTHER -> "undefined"

\* A timestamp string is the sequence of its character codes; the engine
\* writes hour h of the series as two digits (datetime.isoformat() has one
\* width for whole-second timestamps).
Iso(h) == <<h \div 10, h % 10>>

\* a < b for strings, by code unit, as Array.prototype.sort() compares
RECURSIVE LexLess(_, _)
LexLess(a, b) ==
    IF b = <<>> THEN FALSE
    ELSE IF a = <<>> THEN TRUE
    ELSE IF Head(a) # Head(b) THEN Head(a) < Head(b)
    ELSE LexLess(Tail(a), Tail(b))

\* insertion of one string into a sorted sequence of strings
RECURSIVE SortedInsert(_, _)
SortedInsert(sorted, x) ==
    IF sorted = <<>> THEN <<x>>
    ELSE IF LexLess(x, Head(sorted)) THEN <<x>> \o sorted
    ELSE <<Head(sorted)>> \o SortedInsert(Tail(sorted), x)

\* Array.prototype.sort() without a comparator, on strings
RECURSIVE JsSort(_)
JsSort(xs) ==
    IF xs = <<>> THEN <<>>
    ELSE SortedInsert(JsSort(Tail(xs)), Head(xs))

(***************************************************************************)
(* The persisted runs (the external collaborator behind                    *)
(* GET /api/backtest/runs/{id}).  A name is <<>> (null) or <<s>>.          *)
(***************************************************************************)
Point(h, v) == [time |-> Iso(h), value |-> v]

\* The configuration the run page starts from, as stored in params.
DefaultParams ==
    [symbol |-> Str("BTC/USD"), timeframe |-> Str("1h"), days |-> Num(90),
     capital |-> Num(1000), position_size_pct |-> Num(20),
     use_rsi |-> Bool(TRUE), rsi_period |-> Num(14), rsi_oversold |-> Num(30),
     rsi_overbought |-> Num(70),
     use_macd |-> Bool(TRUE), macd_fast |-> Num(12), macd_slow |-> Num(26),
     macd_signal |-> Num(9),
     use_sma |-> Bool(TRUE), sma_short |-> Num(10), sma_long |-> Num(20),
     stop_loss_pct |-> NullV, take_profit_pct |-> NullV]

StoredNames == << <<>>, <<"A">>, <<"Run 2">> >>

StoredCurves ==
    << <<Point(9, 1000), Point(10, 1010)>>,
       <<Point(9, 1000), Point(11, 990)>>,
       <<Point(10, 1000)>> >>

StoredParams ==
    << DefaultParams,
       [DefaultParams EXCEPT !.rsi_oversold = Num(25)],
       [DefaultParams EXCEPT !.rsi_oversold = Num(35)],
       [DefaultParams EXCEPT !.stop_loss_pct = Num(3)] >>

\* Runs 1..9 carry every pairing of a name and a curve under the default
\* configuration; later runs vary the configuration.
Store(id) ==
    [id |-> id,
     name |-> StoredNames[((id - 1) % 3) + 1],
     params |-> StoredParams[IF id <= 9 THEN 1 ELSE ((id - 10) % 3) + 2],
     results |-> [equity_curve |->
                    StoredCurves[IF id <= 9 THEN (((id - 1) \div 3) % 3) + 1 ELSE 1]]]

RunIds == 1..NumStored

(***************************************************************************)
(* The compare page: what CompareContent computes from runs.               *)
(***************************************************************************)
\* run.name || `Run ${idx + 1}`   (idx here is 1-based)
Label(rs, i) ==
    IF rs[i].name # <<>> /\ rs[i].name[1] # ""
    THEN rs[i].name[1]
    ELSE "Run " \o ToString(i)

\* one iteration of `for (const point of run.results.equity_curve)`:
\* tm is the Map as [keys: insertion order, map: time -> entry]
SetPoint(tm, label, point) ==
    LET had == point.time \in DOMAIN tm.map
        entry == IF had THEN tm.map[point.time]
                 ELSE [time |-> point.time, vals |-> <<>>]
        vals2 == [l \in (DOMAIN entry.vals) \cup {label} |->
                    IF l = label THEN point.value ELSE entry.vals[l]]
        entry2 == [entry EXCEPT !.vals = vals2]
    IN [keys |-> IF had THEN tm.keys ELSE Append(tm.keys, point.time),
        map |-> [t \in (DOMAIN tm.map) \cup {point.time} |->
                    IF t = point.time THEN entry2 ELSE tm.map[t]]]

RECURSIVE AddCurve(_, _, _, _)
AddCurve(tm, label, curve, k) ==
    IF k > Len(curve) THEN tm
    ELSE AddCurve(SetPoint(tm, label, curve[k]), label, curve, k + 1)

RECURSIVE AddRuns(_, _, _)
AddRuns(tm, rs, i) ==
    IF i > Len(rs) THEN tm
    ELSE AddRuns(AddCurve(tm, Label(rs, i), rs[i].results.equity_curve, 1), rs, i + 1)

timeMap(rs) == AddRuns([keys |-> <<>>, map |-> <<>>], rs, 1)

mergedCurve(rs) ==
    LET tm == timeMap(rs)
        sorted == JsSort(tm.keys)
    IN [k \in 1..Len(sorted) |-> tm.map[sorted[k]]]

\* Object.keys(PARAM_LABELS)
allParamKeys ==
    <<"capital", "position_size_pct", "rsi_period", "rsi_oversold",
      "rsi_overbought", "macd_fast", "macd_slow", "macd_signal", "sma_short",
      "sma_long", "days">>

\* r.params[key]
ParamValue(r, key) ==
    IF key \in DOMAIN r.params THEN r.params[key] ELSE Undefined

\* a mutation of ParamDiffers: a parameter counts only when no two runs agree
ParamDiffersAllDistinct(rs, key) ==
    Cardinality({JsString(ParamValue(rs[i], key)) : i \in 1..Len(rs)}) = Len(rs)

\* new Set(values.map(String)).size > 1
ParamDiffers(rs, key) ==
    Cardinality({JsString(ParamValue(rs[i], key)) : i \in 1..Len(rs)}) > 1

diffParams(rs) == SelectSeq(allParamKeys, LAMBDA key : ParamDiffers(rs, key))

\* the <th> cells of the metrics table after the "Metric" cell
metricsColumns(rs) == [i \in 1..Len(rs) |-> [key |-> rs[i].id, header |-> Label(rs, i)]]

\* what CompareContent returns
View ==
    IF cmpLoading THEN "loading"
    ELSE IF cmpError # "" THEN "error"
    ELSE IF Len(runs) < 2 THEN "select"
    ELSE "comparison"

\* const COLORS = [...]
COLORS == <<"#3B82F6", "#10B981", "#F59E0B", "#EF4444", "#8B5CF6">>

\* stroke={COLORS[idx % COLORS.length]}, the index i counting from 0
Stroke(i) == COLORS[(i % Len(COLORS)) + 1]

(***************************************************************************)
(* The compare page: the effect and the promise callbacks.                 *)
(***************************************************************************)
IdLists(pool) == UNION {[1..n -> pool] : n \in 0..MaxIds}

RemoveAt(s, k) == [j \in 1..(Len(s) - 1) |-> IF j < k THEN s[j] ELSE s[j + 1]]

\* useEffect(..., [searchParams]): the URL's id list becomes ids (the mount
\* is the first run of the effect)
Navigate(ids) ==
    /\ navLeft > 0
    /\ navLeft' = navLeft - 1
    /\ navCount' = navCount + 1
    /\ searchIds' = ids
    /\ lastFailed' = FALSE
    /\ IF Len(ids) < 2
       THEN /\ cmpLoading' = FALSE
            /\ UNCHANGED batches
       ELSE /\ batches' = Append(batches,
                    [ids |-> ids, pending |-> 1..Len(ids), gen |-> navCount + 1])
            /\ UNCHANGED cmpLoading
    /\ UNCHANGED <<runs, cmpError, idPool>>
    /\ UNCHANGED <<pageVars, engVars, histVars>>

\* one fetch of batch b answers with r.ok; the last one resolves Promise.all
FetchOk(b, i) ==
    /\ b \in 1..Len(batches)
    /\ i \in batches[b].pending
    /\ IF batches[b].pending = {i}
       THEN /\ runs' = [k \in 1..Len(batches[b].ids) |-> Store(batches[b].ids[k])]
            /\ cmpLoading' = FALSE
            /\ batches' = RemoveAt(batches, b)
       ELSE /\ batches' = [batches EXCEPT ![b].pending = @ \ {i}]
            /\ UNCHANGED <<runs, cmpLoading>>
    /\ UNCHANGED <<searchIds, cmpError, navCount, navLeft, idPool, lastFailed>>
    /\ UNCHANGED <<pageVars, engVars, histVars>>

\* one fetch of batch b answers !r.ok (or rejects): Promise.all rejects
FetchFail(b, i) ==
    /\ b \in 1..Len(batches)
    /\ i \in batches[b].pending
    /\ cmpError' = "Failed to fetch run " \o ToString(batches[b].ids[i])
    /\ cmpLoading' = FALSE
    /\ lastFailed' = (lastFailed \/ batches[b].gen = navCount)
    /\ batches' = RemoveAt(batches, b)
    /\ UNCHANGED <<searchIds, runs, navCount, navLeft, idPool>>
    /\ UNCHANGED <<pageVars, engVars, histVars>>

CompareNext ==
    \/ navLeft > 0 /\ \E ids \in IdLists(idPool) : Navigate(ids)
    \/ \E b \in 1..Len(batches) : \E i \in batches[b].pending : FetchOk(b, i)
    \/ \E b \in 1..Len(batches) : \E i \in batches[b].pending : FetchFail(b, i)

CompareUnmounted ==
    /\ searchIds = <<>>
    /\ runs = <<>>
    /\ cmpLoading = TRUE
    /\ cmpError = ""
    /\ batches = <<>>
    /\ navCount = 0
    /\ lastFailed = FALSE

CompareIdle ==
    /\ CompareUnmounted
    /\ navLeft = 0
    /\ idPool = {}

(***************************************************************************)
(* The history page: the list of runs, the selection, the Compare button.  *)
(***************************************************************************)
\* next.has(id)
Has(set, id) == \E k \in 1..Len(set) : set[k] = id

\* next.delete(id)
Delete(set, id) == SelectSeq(set, LAMBDA x : x # id)

\* a mutation of toggle: an id is added whatever the size of the set
toggleNoCap(prev, id) ==
    IF Has(prev, id) THEN Delete(prev, id) ELSE Append(prev, id)

\* the function given to setSelected by toggle(id)
toggle(prev, id) ==
    IF Has(prev, id) THEN Delete(prev, id)
    ELSE IF Len(prev) < 5 THEN Append(prev, id)
    ELSE prev

\* A URL is a sequence of pieces: an id (1, 2, ...) or the "," (0).
\* Array.from(selected).join(","): the ids with a "," between two of them
RECURSIVE Join(_)
Join(ids) ==
    IF Len(ids) = 0 THEN <<>>
    ELSE IF Len(ids) = 1 THEN <<ids[1]>>
    ELSE <<ids[1], 0>> \o Join(Tail(ids))

\* searchParams.get("ids")?.split(","): the pieces between the "," of str;
\* a piece is the id it spells
RECURSIVE Split(_)
Split(str) ==
    IF \A k \in 1..Len(str) : str[k] # 0 THEN <<str>>
    ELSE LET c == CHOOSE k \in 1..Len(str) :
                      str[k] = 0 /\ \A j \in 1..(k - 1) : str[j] # 0
         IN <<SubSeq(str, 1, c - 1)>> \o Split(SubSeq(str, c + 1, Len(str)))

\* (the empty piece spells the empty id, 0)
IdsOfUrl(str) ==
    [k \in 1..Len(Split(str)) |->
        IF Split(str)[k] = <<>> THEN 0 ELSE Split(str)[k][1]]

\* fetch("/api/backtest/runs").then((r) => r.json()).then(setRuns)
SetRuns(n) ==
    /\ histFetch = "pending"
    /\ histRuns' = [k \in 1..n |-> k]
    /\ histFetch' = "then"
    /\ UNCHANGED <<selected, histLoading>>
    /\ UNCHANGED <<cmpVars, pageVars, engVars>>

\* the fetch or r.json() rejects: setRuns is skipped
RunsFailed ==
    /\ histFetch = "pending"
    /\ histFetch' = "settled"
    /\ histLoading' = FALSE
    /\ UNCHANGED <<histRuns, selected>>
    /\ UNCHANGED <<cmpVars, pageVars, engVars>>

\* .finally(() => setLoading(false))
LoadingDone ==
    /\ histFetch = "then"
    /\ histFetch' = "settled"
    /\ histLoading' = FALSE
    /\ UNCHANGED <<histRuns, selected>>
    /\ UNCHANGED <<cmpVars, pageVars, engVars>>

\* the rows are rendered, and the page is still the history page
RowShown(id) == ~histLoading /\ Has(histRuns, id) /\ navCount = 0

\* a click on the row of run id, outside its checkbox: <tr onClick>
ClickRow(id) ==
    /\ RowShown(id)
    /\ selected' = toggle(selected, id)
    /\ UNCHANGED <<histRuns, histLoading, histFetch>>
    /\ UNCHANGED <<cmpVars, pageVars, engVars>>

\* a click on the checkbox of run id: the onChange of the <input>, and the
\* onClick of the <tr> the click bubbles to
ClickCheckbox(id) ==
    /\ RowShown(id)
    /\ selected' = toggle(toggle(selected, id), id)
    /\ UNCHANGED <<histRuns, histLoading, histFetch>>
    /\ UNCHANGED <<cmpVars, pageVars, engVars>>

\* a mutation of CompareShown: the button is there whatever the selection
CompareShownAlways == navCount = 0

\* {selected.size >= 2 && <button onClick={compare}>}
CompareShown == Len(selected) >= 2 /\ navCount = 0

\* compare(): router.push(`/backtest/compare?ids=${ids}`); the compare page
\* mounts and its effect reads the ids of the URL
compare ==
    /\ CompareShown
    /\ Navigate(IdsOfUrl(Join(selected)))

HistoryNext ==
    \/ \E n \in {0, 2, NumListed} : SetRuns(n)
    \/ RunsFailed
    \/ LoadingDone
    \/ \E id \in 1..NumListed : ClickRow(id)
    \/ \E id \in 1..NumListed : ClickCheckbox(id)
    \/ compare
    \/ \E b \in 1..Len(batches) : \E i \in batches[b].pending : FetchOk(b, i)
    \/ \E b \in 1..Len(batches) : \E i \in batches[b].pending : FetchFail(b, i)

HistoryMounted ==
    /\ histRuns = <<>>
    /\ selected = <<>>
    /\ histLoading = TRUE
    /\ histFetch = "pending"

\* the history page is not part of the behaviour: its fetch has settled
\* with no run
HistoryIdle ==
    /\ histRuns = <<>>
    /\ selected = <<>>
    /\ histLoading = FALSE
    /\ histFetch = "settled"

(***************************************************************************)
(* The run page: the form state.                                           *)
(***************************************************************************)
MaxEdits == 1       \* single-field edits of the form in one behaviour

SYMBOLS == {"BTC/USD", "ETH/USD", "SOL/USD", "DOGE/USD", "ADA/USD", "AVAX/USD",
            "LINK/USD", "DOT/USD"}

TIMEFRAMES == {"1m", "5m", "15m", "1h", "4h", "1d"}

DEFAULTS ==
    [name |-> Str(""), symbol |-> Str("BTC/USD"), timeframe |-> Str("1h"),
     days |-> Num(90), capital |-> Num(1000), position_size_pct |-> Num(20),
     use_rsi |-> Bool(TRUE), rsi_period |-> Num(14), rsi_oversold |-> Num(30),
     rsi_overbought |-> Num(70),
     use_macd |-> Bool(TRUE), macd_fast |-> Num(12), macd_slow |-> Num(26),
     macd_signal |-> Num(9),
     use_sma |-> Bool(TRUE), sma_short |-> Num(10), sma_long |-> Num(20),
     stop_loss_pct |-> NullV, take_profit_pct |-> NullV]

PresetKeys == {"default", "conservative", "aggressive", "trend", "momentum"}

\* PRESETS[key].params, as the set of its fields
PresetParams(key) ==
    CASE key = "default" -> <<>>
      [] key = "conservative" ->
            [position_size_pct |-> Num(10), rsi_oversold |-> Num(25),
             rsi_overbought |-> Num(75), sma_short |-> Num(20),
             sma_long |-> Num(50), stop_loss_pct |-> Num(3),
             take_profit_pct |-> Num(8)]
      [] key = "aggressive" ->
            [position_size_pct |-> Num(40), rsi_oversold |-> Num(35),
             rsi_overbought |-> Num(65), sma_short |-> Num(5),
             sma_long |-> Num(15), stop_loss_pct |-> NullV,
             take_profit_pct |-> NullV]
      [] key = "trend" ->
            [use_rsi |-> Bool(FALSE), use_macd |-> Bool(TRUE),
             use_sma |-> Bool(TRUE), sma_short |-> Num(10),
             sma_long |-> Num(30), stop_loss_pct |-> Num(5),
             take_profit_pct |-> Num(15)]
      [] key = "momentum" ->
            [use_rsi |-> Bool(TRUE), use_macd |-> Bool(TRUE),
             use_sma |-> Bool(FALSE), rsi_period |-> Num(10),
             rsi_oversold |-> Num(25), rsi_overbought |-> Num(75),
             macd_fast |-> Num(8), macd_slow |-> Num(21),
             macd_signal |-> Num(5), stop_loss_pct |-> Num(4),
             take_profit_pct |-> Num(10)]

\* a mutation of Spread: only the fields of the last object are kept
SpreadLastOnly(a, b) == b

\* { ...a, ...b }
Spread(a, b) ==
    [k \in (DOMAIN a) \cup (DOMAIN b) |-> IF k \in DOMAIN b THEN b[k] ELSE a[k]]

\* names PRESETS answers for although it has no such preset: the properties
\* a JavaScript object inherits (PRESETS[key] is then a function, which is
\* truthy and has no params)
InheritedKeys == {"constructor", "toString"}

\* a mutation of ParamsOfPreset: of a preset only sma_short is taken
ParamsOfPresetShortOnly(key) ==
    IF key \in PresetKeys /\ "sma_short" \in DOMAIN PresetParams(key)
    THEN [k \in {"sma_short"} |-> PresetParams(key)[k]]
    ELSE <<>>

\* preset.params of PRESETS[key], for a key PRESETS answers for
ParamsOfPreset(key) == IF key \in PresetKeys THEN PresetParams(key) ELSE <<>>

\* a mutation of KeptByPreset: the capital is not carried over
KeptByPresetButCapital(p) ==
    [name |-> p.name, symbol |-> p.symbol, timeframe |-> p.timeframe,
     days |-> p.days]

\* the fields applyPreset carries over from the current params
KeptByPreset(p) ==
    [name |-> p.name, symbol |-> p.symbol, timeframe |-> p.timeframe,
     days |-> p.days, capital |-> p.capital]

IsTrue(v) == v.tag = "boolean" /\ v.n = 1

\* a mutation of RunDisabled: the button stays enabled during a request
RunDisabledNotWhileLoading ==
    ~IsTrue(params.use_rsi) /\ ~IsTrue(params.use_macd) /\ ~IsTrue(params.use_sma)

\* the Run button's disabled attribute
RunDisabled ==
    loading \/ (~IsTrue(params.use_rsi) /\ ~IsTrue(params.use_macd) /\ ~IsTrue(params.use_sma))

\* numbers typed into a NumberInput (Number("") is 0)
TypedNumbers == {0, 25}

\* the options the environment picks in the two <select> controls
PickedSymbols == {"BTC/USD", "ETH/USD"}
PickedTimeframes == {"1h", "1d"}

NumberInputs(p) ==
    {"days", "capital", "position_size_pct"}
    \cup (IF p.stop_loss_pct.tag # "null" THEN {"stop_loss_pct"} ELSE {})
    \cup (IF p.take_profit_pct.tag # "null" THEN {"take_profit_pct"} ELSE {})
    \cup (IF IsTrue(p.use_rsi) THEN {"rsi_period", "rsi_oversold", "rsi_overbought"} ELSE {})
    \cup (IF IsTrue(p.use_sma) THEN {"sma_short", "sma_long"} ELSE {})
    \cup (IF IsTrue(p.use_macd) THEN {"macd_fast", "macd_slow", "macd_signal"} ELSE {})

\* the <<key, value>> pairs the form's controls pass to set()
FormEdits(p) ==
    {<<"name", Str(s)>> : s \in {"", "aggressive RSI"}}
    \cup {<<"symbol", Str(s)>> : s \in SYMBOLS \cap PickedSymbols}
    \cup {<<"timeframe", Str(s)>> : s \in TIMEFRAMES \cap PickedTimeframes}
    \cup {<<k, Num(n)>> : k \in NumberInputs(p), n \in TypedNumbers}
    \cup {<<k, Bool(~IsTrue(p[k]))>> : k \in {"use_rsi", "use_macd", "use_sma"}}
    \cup {<<"stop_loss_pct", IF p.stop_loss_pct.tag = "null" THEN Num(5) ELSE NullV>>}
    \cup {<<"take_profit_pct", IF p.take_profit_pct.tag = "null" THEN Num(10) ELSE NullV>>}

\* set(key, value), called by a control of the form
SetParam(key, value) ==
    /\ editsLeft > 0
    /\ <<key, value>> \in FormEdits(params)
    /\ params' = [params EXCEPT ![key] = value]
    /\ editsLeft' = editsLeft - 1
    /\ UNCHANGED <<results, loading, error, activePreset, request, lastOutcome>>
    /\ UNCHANGED <<cmpVars, engVars, histVars>>

\* const preset = PRESETS[key]; if (!preset) return; ...
applyPreset(key) ==
    /\ IF key \in PresetKeys \cup InheritedKeys
       THEN /\ activePreset' = key
            /\ params' = Spread(Spread(DEFAULTS, KeptByPreset(params)), ParamsOfPreset(key))
       ELSE UNCHANGED <<activePreset, params>>
    /\ UNCHANGED <<results, loading, error, request, lastOutcome, editsLeft>>
    /\ UNCHANGED <<cmpVars, engVars, histVars>>

resetDefaults ==
    /\ params' = DEFAULTS
    /\ activePreset' = "default"
    /\ UNCHANGED <<results, loading, error, request, lastOutcome, editsLeft>>
    /\ UNCHANGED <<cmpVars, engVars, histVars>>

(***************************************************************************)
(* The run page: runBacktest and the ways its request ends.                *)
(***************************************************************************)
\* a mutation of ResultsAtStart: the previous results are left on screen
ResultsKeptAtStart(prev) == prev

\* setResults(null) before the request is sent
ResultsAtStart(prev) == <<>>

\* the reports POST /api/backtest/run answers with
ServerResults ==
    {[id |-> "run-1", total_return_pct |-> 3, final_value |-> 1030, trade_count |-> 2]}

\* the detail of a non-OK answer: absent, empty, a message, or the list of
\* validation errors of a 422
ErrorDetails ==
    {Undefined, Str(""), Str("Not enough candles (12). Need at least 30."),
     [tag |-> "object", n |-> 0, s |-> "[object Object]"]}

Truthy(v) ==
    CASE v.tag = "number" -> v.n # 0
      [] v.tag = "string" -> v.s # ""
      [] v.tag = "boolean" -> v.n = 1
      [] v.tag = "object" -> TRUE
      [] OTHER -> FALSE

\* new Error(err.detail || "Backtest failed").message
NotOkMessage(detail) ==
    IF Truthy(detail)
    THEN (IF detail.tag = "object" THEN detail.s ELSE JsString(detail))
    ELSE "Backtest failed"

\* the click on the Run button
runBacktest ==
    /\ ~RunDisabled
    /\ loading' = TRUE
    /\ error' = ""
    /\ results' = ResultsAtStart(results)
    /\ request' = Append(request, [body |-> params])
    /\ UNCHANGED <<params, activePreset, lastOutcome, editsLeft>>
    /\ UNCHANGED <<cmpVars, engVars, histVars>>

\* resp.ok and the body parses: setResults(await resp.json())
RespOk(r) ==
    /\ request # <<>>
    /\ r \in ServerResults
    /\ results' = <<r>>
    /\ loading' = FALSE
    /\ request' = Tail(request)
    /\ lastOutcome' = "ok"
    /\ UNCHANGED <<params, error, activePreset, editsLeft>>
    /\ UNCHANGED <<cmpVars, engVars, histVars>>

\* !resp.ok with a JSON body: the thrown Error is caught
RespNotOk(detail) ==
    /\ request # <<>>
    /\ detail \in ErrorDetails
    /\ error' = NotOkMessage(detail)
    /\ loading' = FALSE
    /\ request' = Tail(request)
    /\ lastOutcome' = "failed"
    /\ UNCHANGED <<params, results, activePreset, editsLeft>>
    /\ UNCHANGED <<cmpVars, engVars, histVars>>

\* fetch rejects, or resp.json() rejects on an unreadable body
RequestFailed(message) ==
    /\ request # <<>>
    /\ message \in {"Failed to fetch", "Unexpected end of JSON input"}
    /\ error' = message
    /\ loading' = FALSE
    /\ request' = Tail(request)
    /\ lastOutcome' = "failed"
    /\ UNCHANGED <<params, results, activePreset, editsLeft>>
    /\ UNCHANGED <<cmpVars, engVars, histVars>>

PageNext ==
    \/ \E e \in FormEdits(params) : SetParam(e[1], e[2])
    \/ \E key \in PresetKeys \cup InheritedKeys \cup {"unknown"} : applyPreset(key)
    \/ resetDefaults
    \/ runBacktest
    \/ \E r \in ServerResults : RespOk(r)
    \/ \E detail \in ErrorDetails : RespNotOk(detail)
    \/ \E message \in {"Failed to fetch", "Unexpected end of JSON input"} :
            RequestFailed(message)

PageConstructed ==
    /\ params = DEFAULTS
    /\ results = <<>>
    /\ loading = FALSE
    /\ error = ""
    /\ activePreset = "default"
    /\ request = <<>>
    /\ lastOutcome = "none"

PageIdle ==
    /\ PageConstructed
    /\ editsLeft = 0

(***************************************************************************)
(* The backtest engine: numbers.                                           *)
(***************************************************************************)
MaxTail == 3        \* candles after the warm-up candles

MIN_CANDLES == 30   \* technical.py: minimum window of process()

\* a mutation of LoopStart: the loop starts one candle early
LoopStartOneEarly == MIN_CANDLES - 1

LoopStart == 30     \* runner.py: range(30, len(candles))

Mills(units) == units * 1000

Min(a, b) == IF a < b THEN a ELSE b
Max(a, b) == IF a > b THEN a ELSE b
Abs(a) == IF a < 0 THEN -a ELSE a

\* a / b truncated toward zero, b > 0   (int() of a quotient)
TruncDiv(a, b) == IF a >= 0 THEN a \div b ELSE -((-a) \div b)

\* round(v, 2) of an amount in mills: the nearest cent, a tie to the even cent
RoundCents(v) ==
    LET q == v \div 10
        r == v % 10
    IN IF r < 5 THEN q * 10
       ELSE IF r > 5 THEN (q + 1) * 10
       ELSE IF q % 2 = 0 THEN q * 10 ELSE (q + 1) * 10

RECURSIVE SumRange(_, _, _)
SumRange(xs, a, b) == IF a > b THEN 0 ELSE xs[a] + SumRange(xs, a + 1, b)

\* a ratio num/den kept exact (den > 0)
Frac(num, den) == [num |-> num, den |-> den]
FracGreater(x, y) == x.num * y.den > y.num * x.den

(***************************************************************************)
(* The indicator library (pandas_ta), on the closes of a window.           *)
(***************************************************************************)
Closes(window) == [k \in 1..Len(window) |-> window[k].close]

\* ta.sma(close, length).iloc[-1 - back] as the sum over its window; <<>> is NaN
SmaSum(closes, length, back) ==
    LET last == Len(closes) - back
    IN IF length < 1 \/ last < length THEN <<>>
       ELSE <<SumRange(closes, last - length + 1, last)>>

\* ta.rsi(close, length).iloc[-1] as [gain, loss], the summed rises and falls
\* of the trailing `length` changes; <<>> is NaN
Rsi(closes, length) ==
    LET n == Len(closes)
        ups == [k \in 1..(n - 1) |-> Max(closes[k + 1] - closes[k], 0)]
        downs == [k \in 1..(n - 1) |-> Max(closes[k] - closes[k + 1], 0)]
        g == SumRange(ups, n - length, n - 1)
        l == SumRange(downs, n - length, n - 1)
    IN IF length < 1 \/ n < length + 1 THEN <<>>
       ELSE IF g + l = 0 THEN <<>>
       ELSE <<[gain |-> g, loss |-> l]>>

RECURSIVE EmaAcc(_, _, _, _)
EmaAcc(xs, length, k, acc) ==
    IF k > Len(xs) THEN acc
    ELSE LET prev == acc[Len(acc)]
         IN EmaAcc(xs, length, k + 1,
                   Append(acc, prev + TruncDiv(2 * (xs[k] - prev), length + 1)))

\* ta.ema(xs, length) without its leading NaNs: seeded with the mean of the
\* first `length` values, then smoothed with alpha = 2 / (length + 1)
Ema(xs, length) ==
    IF length < 1 \/ Len(xs) < length THEN <<>>
    ELSE EmaAcc(xs, length, length + 1, <<TruncDiv(SumRange(xs, 1, length), length)>>)

\* ta.macd(close, fast, slow, signal).iloc[:, 2] without its leading NaNs,
\* in mills
MacdHist(closes, fast, slow, signal) ==
    LET f == Min(fast, slow)
        sl == Max(fast, slow)
        xs == [k \in 1..Len(closes) |-> Mills(closes[k])]
        fastE == Ema(xs, f)
        slowE == Ema(xs, sl)
        macd == [j \in 1..Len(slowE) |-> fastE[j + sl - f] - slowE[j]]
        sigE == Ema(macd, signal)
    IN [j \in 1..Len(sigE) |-> macd[j + signal - 1] - sigE[j]]

(***************************************************************************)
(* TechnicalProcessor: the signals of one window.                          *)
(***************************************************************************)
\* _make_signal; expires_at = now + SIGNAL_TTL (one hour)
MakeSignal(coin, direction, confidence, source, now) ==
    [coin |-> coin, direction |-> direction, confidence |-> confidence,
     source |-> source, timestamp |-> now, expires_at |-> now + 1]

\* int((a - rsi) * 3.3) for rsi = 100 * gain / (gain + loss), where
\* margin = a * (gain + loss) - 100 * gain
RsiConfidence(margin, total) == Min(100, TruncDiv(margin * 33, 10 * total))

rsi_signals(cfg, closes, coin, now) ==
    LET rsi == Rsi(closes, cfg.rsi_period)
    IN IF rsi = <<>> THEN <<>>
       ELSE LET g == rsi[1].gain
                t == rsi[1].gain + rsi[1].loss
            IN IF 100 * g < cfg.rsi_oversold * t
               THEN <<MakeSignal(coin, "bullish",
                         RsiConfidence(cfg.rsi_oversold * t - 100 * g, t),
                         "technical/rsi_oversold", now)>>
               ELSE IF 100 * g > cfg.rsi_overbought * t
               THEN <<MakeSignal(coin, "bearish",
                         RsiConfidence(100 * g - cfg.rsi_overbought * t, t),
                         "technical/rsi_overbought", now)>>
               ELSE <<>>

\* min(100, max(30, int(abs(current) * 1000)))
MacdConfidence(current) == Min(100, Max(30, Abs(current)))

macd_signals(cfg, closes, coin, now) ==
    LET hist == MacdHist(closes, cfg.macd_fast, cfg.macd_slow, cfg.macd_signal)
    IN IF Len(hist) < 2 THEN <<>>
       ELSE LET current == hist[Len(hist)]
                previous == hist[Len(hist) - 1]
            IN IF previous < 0 /\ current > 0
               THEN <<MakeSignal(coin, "bullish", MacdConfidence(current),
                                 "technical/macd_crossover", now)>>
               ELSE IF previous > 0 /\ current < 0
               THEN <<MakeSignal(coin, "bearish", MacdConfidence(current),
                                 "technical/macd_crossover", now)>>
               ELSE <<>>

\* a mutation of sma_signals: a short average equal to the long one counts
\* as having crossed above it
sma_signals_on_touch(cfg, closes, coin, now) ==
    LET short_val == SmaSum(closes, cfg.sma_short, 0)
        long_val == SmaSum(closes, cfg.sma_long, 0)
        prev_short == SmaSum(closes, cfg.sma_short, 1)
        prev_long == SmaSum(closes, cfg.sma_long, 1)
    IN IF <<>> \in {short_val, long_val, prev_short, prev_long} THEN <<>>
       ELSE IF prev_short[1] * cfg.sma_long <= prev_long[1] * cfg.sma_short
               /\ short_val[1] * cfg.sma_long >= long_val[1] * cfg.sma_short
       THEN <<MakeSignal(coin, "bullish", 55, "technical/sma_golden_cross", now)>>
       ELSE <<>>

sma_signals(cfg, closes, coin, now) ==
    LET short_val == SmaSum(closes, cfg.sma_short, 0)
        long_val == SmaSum(closes, cfg.sma_long, 0)
        prev_short == SmaSum(closes, cfg.sma_short, 1)
        prev_long == SmaSum(closes, cfg.sma_long, 1)
    IN IF <<>> \in {short_val, long_val, prev_short, prev_long} THEN <<>>
       ELSE LET s == short_val[1] * cfg.sma_long
                l == long_val[1] * cfg.sma_short
                ps == prev_short[1] * cfg.sma_long
                pl == prev_long[1] * cfg.sma_short
            IN IF ps <= pl /\ s > l
               THEN <<MakeSignal(coin, "bullish", 55, "technical/sma_golden_cross", now)>>
               ELSE IF ps >= pl /\ s < l
               THEN <<MakeSignal(coin, "bearish", 55, "technical/sma_death_cross", now)>>
               ELSE <<>>

\* the enable flag of an indicator: a disabled indicator gives no signal
WhenEnabled(flag, signals) == IF flag THEN signals ELSE <<>>

\* TechnicalProcessor.process
process(cfg, window) ==
    IF Len(window) < MIN_CANDLES THEN <<>>
    ELSE LET closes == Closes(window)
             coin == window[1].coin
             now == window[Len(window)].timestamp
         IN WhenEnabled(cfg.use_rsi, rsi_signals(cfg, closes, coin, now))
            \o WhenEnabled(cfg.use_macd, macd_signals(cfg, closes, coin, now))
            \o WhenEnabled(cfg.use_sma, sma_signals(cfg, closes, coin, now))

(***************************************************************************)
(* Portfolio and executor.  A position's closed_at and exit_price are <<>>  *)
(* while it is open.                                                       *)
(***************************************************************************)
OpenPositions(pf, coin) ==
    {k \in 1..Len(pf.positions) :
        pf.positions[k].coin = coin /\ pf.positions[k].closed_at = <<>>}

\* quantity * price, to the mill; a quantity is the exact ratio amount / close
Worth(quantity, price) == (quantity.num * price) \div quantity.den

\* coin in portfolio.positions
HasOpen(pf, coin) == OpenPositions(pf, coin) # {}

\* the open position of coin (the earliest, should there be several)
OpenPosition(pf, coin) ==
    pf.positions[CHOOSE k \in OpenPositions(pf, coin) :
                    \A j \in OpenPositions(pf, coin) : k <= j]

\* a mutation of execute_buy: a closed position of the coin is opened again
execute_buy_reusing(book, coin, amount, candle) ==
    LET quantity == Frac(amount, candle.close)
        position == [coin |-> coin, entry_price |-> candle.close,
                     quantity |-> quantity, opened_at |-> candle.timestamp,
                     closed_at |-> <<>>, exit_price |-> <<>>, realized_pnl |-> 0]
        trade == [coin |-> coin, side |-> "buy", quantity |-> quantity,
                  price |-> candle.close, amount |-> amount,
                  timestamp |-> candle.timestamp]
        old == {k \in 1..Len(book.portfolio.positions) :
                    book.portfolio.positions[k].coin = coin}
    IN [portfolio |-> [cash |-> book.portfolio.cash - amount,
                       positions |->
                           IF old = {}
                           THEN Append(book.portfolio.positions, position)
                           ELSE [book.portfolio.positions
                                    EXCEPT ![CHOOSE k \in old : TRUE] = position]],
        trades |-> Append(book.trades, trade)]

\* executor.execute_buy(coin, amount=amount, candle=candle)
execute_buy(book, coin, amount, candle) ==
    LET quantity == Frac(amount, candle.close)
        position == [coin |-> coin, entry_price |-> candle.close,
                     quantity |-> quantity, opened_at |-> candle.timestamp,
                     closed_at |-> <<>>, exit_price |-> <<>>, realized_pnl |-> 0]
        trade == [coin |-> coin, side |-> "buy", quantity |-> quantity,
                  price |-> candle.close, amount |-> amount,
                  timestamp |-> candle.timestamp]
    IN [portfolio |-> [cash |-> book.portfolio.cash - amount,
                       positions |-> Append(book.portfolio.positions, position)],
        trades |-> Append(book.trades, trade)]

\* executor.execute_sell(coin, candle=candle)
execute_sell(book, coin, candle) ==
    LET k == CHOOSE k \in OpenPositions(book.portfolio, coin) :
                \A j \in OpenPositions(book.portfolio, coin) : k <= j
        pos == book.portfolio.positions[k]
        proceeds == Worth(pos.quantity, candle.close)
        closed == [pos EXCEPT !.closed_at = <<candle.timestamp>>,
                              !.exit_price = <<candle.close>>,
                              !.realized_pnl =
                                  proceeds - Worth(pos.quantity, pos.entry_price)]
        trade == [coin |-> coin, side |-> "sell", quantity |-> pos.quantity,
                  price |-> candle.close, amount |-> proceeds,
                  timestamp |-> candle.timestamp]
    IN [portfolio |-> [cash |-> book.portfolio.cash + proceeds,
                       positions |-> [book.portfolio.positions EXCEPT ![k] = closed]],
        trades |-> Append(book.trades, trade)]

\* a mutation of RiskOverlay: only the take-profit is looked at
RiskOverlayTakeProfitOnly(cfg, book, coin, candle) ==
    IF ~HasOpen(book.portfolio, coin) THEN book
    ELSE LET pos == OpenPosition(book.portfolio, coin)
             taken == /\ cfg.take_profit_pct # <<>>
                      /\ (candle.close - pos.entry_price) * 100
                            > cfg.take_profit_pct[1] * pos.entry_price
         IN IF taken THEN execute_sell(book, coin, candle) ELSE book

\* stop-loss and take-profit, before the signals of the step are looked at
RiskOverlay(cfg, book, coin, candle) ==
    IF ~HasOpen(book.portfolio, coin) THEN book
    ELSE LET pos == OpenPosition(book.portfolio, coin)
             stopped == /\ cfg.stop_loss_pct # <<>>
                        /\ (pos.entry_price - candle.close) * 100
                              > cfg.stop_loss_pct[1] * pos.entry_price
             taken == /\ cfg.take_profit_pct # <<>>
                      /\ (candle.close - pos.entry_price) * 100
                            > cfg.take_profit_pct[1] * pos.entry_price
         IN IF stopped \/ taken THEN execute_sell(book, coin, candle) ELSE book

(***************************************************************************)
(* BacktestRunner.run                                                      *)
(***************************************************************************)
\* s.score: the confidence, signed by the direction
Score(sig) == IF sig.direction = "bullish" THEN sig.confidence ELSE -sig.confidence

\* a mutation of Best: the last of the largest
BestLast(signals) ==
    signals[CHOOSE k \in 1..Len(signals) :
               /\ \A j \in 1..Len(signals) : Abs(Score(signals[j])) <= Abs(Score(signals[k]))
               /\ \A j \in (k + 1)..Len(signals) : Abs(Score(signals[j])) < Abs(Score(signals[k]))]

\* max(signals, key=lambda s: abs(s.score)): the first of the largest
Best(signals) ==
    signals[CHOOSE k \in 1..Len(signals) :
               /\ \A j \in 1..Len(signals) : Abs(Score(signals[j])) <= Abs(Score(signals[k]))
               /\ \A j \in 1..(k - 1) : Abs(Score(signals[j])) < Abs(Score(signals[k]))]

\* a mutation of BuyAmount: the percentage is not divided by 100
BuyAmountWholePct(cfg, cash) == cash * cfg.position_size_pct

\* amount = portfolio.cash * (self._position_size_pct / 100)
BuyAmount(cfg, cash) == (cash * cfg.position_size_pct) \div 100

\* a mutation of CanBuy: a position already open is not looked for
CanBuyAlways(pf, best, coin) == best.direction = "bullish"

\* best.direction == "bullish" and coin not in portfolio.positions
CanBuy(pf, best, coin) == best.direction = "bullish" /\ ~HasOpen(pf, coin)

\* a mutation of CanSell: the direction of the signal is not looked at
CanSellAnySignal(pf, best, coin) == HasOpen(pf, coin)

\* best.direction == "bearish" and coin in portfolio.positions
CanSell(pf, best, coin) == best.direction = "bearish" /\ HasOpen(pf, coin)

\* the `if signals:` block of the loop body
SignalAction(cfg, book, signals, coin, candle) ==
    IF signals = <<>> THEN book
    ELSE LET best == Best(signals)
         IN IF CanBuy(book.portfolio, best, coin)
            THEN LET amount == BuyAmount(cfg, book.portfolio.cash)
                 IN IF amount > Mills(1)
                    THEN execute_buy(book, coin, amount, candle)
                    ELSE book
            ELSE IF CanSell(book.portfolio, best, coin)
            THEN execute_sell(book, coin, candle)
            ELSE book

\* value = portfolio.cash + sum of pos.quantity * close over portfolio.positions
PortfolioValue(pf, close) ==
    LET open == {k \in 1..Len(pf.positions) : pf.positions[k].closed_at = <<>>}
        qty == [k \in 1..Len(pf.positions) |->
                    IF k \in open THEN Worth(pf.positions[k].quantity, close) ELSE 0]
    IN pf.cash + SumRange(qty, 1, Len(qty))

\* a mutation of InitialPoint: the curve starts at the first decision candle
InitialPointAtLoopStart(cfg, cs) ==
    [time |-> Iso(cs[Len(cs)].timestamp), value |-> RoundCents(cfg.capital)]

\* {"time": candles[0].timestamp.isoformat(), "value": self._capital}
InitialPoint(cfg, cs) == [time |-> Iso(cs[1].timestamp), value |-> cfg.capital]

\* {"time": current_candle.timestamp.isoformat(), "value": round(value, 2)}
CurvePoint(candle, value) ==
    [time |-> Iso(candle.timestamp), value |-> RoundCents(value)]

\* a mutation of Window: the step is given the whole series
WindowWhole(cs, i) == cs

\* window = candles[: i + 1]
Window(cs, i) == SubSeq(cs, 1, i + 1)

Reverse(xs) == [k \in 1..Len(xs) |-> xs[Len(xs) + 1 - k]]

\* a mutation of Collected: the signals come in an order that depends on the
\* process the run executes in
CollectedBySeed(signals, seed) == IF seed = 1 THEN signals ELSE Reverse(signals)

\* signals is a list: its order is the order in which process() extended it,
\* whatever the process (seed) the run executes in
Collected(signals, seed) == signals

\* a mutation of NewPeak: the peak stays at the starting capital
NewPeakKept(prev, value) == prev

\* if value > peak: peak = value
NewPeak(prev, value) == IF value > prev THEN value ELSE prev

\* ((peak - value) / peak) * 100 if peak > 0 else 0, as the ratio before * 100
Drawdown(newPeak, value) ==
    IF newPeak > 0 THEN Frac(newPeak - value, newPeak) ELSE Frac(0, 1)

\* one pass of `for i in range(30, len(candles))`.  The drawdown is kept as
\* the exact ratio (peak - value) / peak; the report turns it into a percentage.
StepRun(r) ==
    LET window == Window(r.candles, r.idx)
        current_candle == r.candles[r.idx + 1]
        coin == current_candle.coin
        overlaid == RiskOverlay(r.config, [portfolio |-> r.portfolio, trades |-> r.trades],
                                coin, current_candle)
        signals == Collected(process(r.config, window), r.seed)
        book == SignalAction(r.config, overlaid, signals, coin, current_candle)
        value == PortfolioValue(book.portfolio, current_candle.close)
        newPeak == NewPeak(r.peak, value)
        drawdown == Drawdown(newPeak, value)
    IN [r EXCEPT !.portfolio = book.portfolio,
                 !.trades = book.trades,
                 !.equity_curve = Append(r.equity_curve, CurvePoint(current_candle, value)),
                 !.peak = newPeak,
                 !.max_drawdown = IF FracGreater(drawdown, r.max_drawdown)
                                  THEN drawdown ELSE r.max_drawdown,
                 !.idx = r.idx + 1]

\* the run held in the variables, as a record
ThisRun ==
    [config |-> config, candles |-> candles, pc |-> pc, idx |-> idx,
     portfolio |-> portfolio, trades |-> trades, equity_curve |-> equity_curve,
     peak |-> peak, max_drawdown |-> max_drawdown, report |-> report,
     seed |-> 1]

\* the variables of the run become the fields of r
SetRun(r) ==
    /\ config' = r.config
    /\ candles' = r.candles
    /\ pc' = r.pc
    /\ idx' = r.idx
    /\ portfolio' = r.portfolio
    /\ trades' = r.trades
    /\ equity_curve' = r.equity_curve
    /\ peak' = r.peak
    /\ max_drawdown' = r.max_drawdown
    /\ report' = r.report

Step ==
    /\ pc = "loop"
    /\ idx < Len(candles)
    /\ SetRun(StepRun(ThisRun))
    /\ UNCHANGED other
    /\ UNCHANGED <<cmpVars, pageVars, histVars>>

\* _count_wins_losses: acc is [wins, losses, buy_prices]
RECURSIVE CountFrom(_, _, _)
CountFrom(ts, k, acc) ==
    IF k > Len(ts) THEN acc
    ELSE LET trade == ts[k]
             known == trade.coin \in DOMAIN acc.buy_prices
         IN CountFrom(ts, k + 1,
              IF trade.side = "buy"
              THEN [acc EXCEPT !.buy_prices =
                        [c \in (DOMAIN acc.buy_prices) \cup {trade.coin} |->
                            IF c = trade.coin THEN trade.price ELSE acc.buy_prices[c]]]
              ELSE IF trade.side = "sell" /\ known
              THEN [wins |-> acc.wins
                        + (IF trade.price > acc.buy_prices[trade.coin] THEN 1 ELSE 0),
                    losses |-> acc.losses
                        + (IF trade.price > acc.buy_prices[trade.coin] THEN 0 ELSE 1),
                    buy_prices |-> [c \in (DOMAIN acc.buy_prices) \ {trade.coin} |->
                                        acc.buy_prices[c]]]
              ELSE acc)

\* a mutation of count_wins_losses: every closing sell counts as a win
count_sells_as_wins(ts) ==
    LET counted == CountFrom(ts, 1, [wins |-> 0, losses |-> 0, buy_prices |-> <<>>])
    IN [counted EXCEPT !.wins = counted.wins + counted.losses, !.losses = 0]

count_wins_losses(ts) == CountFrom(ts, 1, [wins |-> 0, losses |-> 0, buy_prices |-> <<>>])

\* num / den rounded to the nearest integer, a tie to the even one (den > 0)
RoundDiv(num, den) ==
    LET q == num \div den
        r == num % den
    IN IF 2 * r < den THEN q
       ELSE IF 2 * r > den THEN q + 1
       ELSE IF q % 2 = 0 THEN q ELSE q + 1

\* a mutation of FinalValue: the position is valued at its entry price
FinalValueAtEntry(pf, cs) ==
    LET qty == [k \in 1..Len(pf.positions) |->
                    IF pf.positions[k].closed_at = <<>>
                    THEN Worth(pf.positions[k].quantity, pf.positions[k].entry_price)
                    ELSE 0]
    IN pf.cash + SumRange(qty, 1, Len(qty))

\* final_value = portfolio.cash + sum of pos.quantity * candles[-1].close
FinalValue(pf, cs) == PortfolioValue(pf, cs[Len(cs)].close)

\* the statements after the loop: the BacktestReport.  Percentages are exact
\* ratios; max_drawdown_pct is in hundredths of a percent (round(..., 2)).
FinishRun(r) ==
    LET final_value == FinalValue(r.portfolio, r.candles)
        buy_hold_start == r.candles[1].close
        buy_hold_end == r.candles[Len(r.candles)].close
        counted == count_wins_losses(r.trades)
    IN [r EXCEPT
          !.pc = "done",
          !.report = <<[starting_capital |-> r.config.capital,
                        final_value |-> final_value,
                        total_return_pct |->
                            Frac((final_value - r.config.capital) * 100, r.config.capital),
                        buy_hold_return_pct |->
                            Frac((buy_hold_end - buy_hold_start) * 100, buy_hold_start),
                        trade_count |-> Len(r.trades),
                        win_count |-> counted.wins,
                        loss_count |-> counted.losses,
                        trades |-> r.trades,
                        equity_curve |-> r.equity_curve,
                        max_drawdown_pct |->
                            RoundDiv(r.max_drawdown.num * 10000, r.max_drawdown.den)]>>]

Finish ==
    /\ pc = "loop"
    /\ idx >= Len(candles)
    /\ SetRun(FinishRun(ThisRun))
    /\ UNCHANGED other
    /\ UNCHANGED <<cmpVars, pageVars, histVars>>

EngineNext ==
    \/ Step
    \/ Finish

\* run() from the state r to its return
RECURSIVE RunToEnd(_)
RunToEnd(r) ==
    IF r.idx < Len(r.candles) THEN RunToEnd(StepRun(r)) ELSE FinishRun(r)

\* a mutation of RunLocals: the portfolio and the trade log are shared by
\* the runs
RunLocalsShared(own, concurrent) ==
    [own EXCEPT !.portfolio = concurrent.portfolio, !.trades = concurrent.trades]

\* portfolio, executor and processor are locals of run(): a step of a run
\* reads and writes the objects of its own call
RunLocals(own, concurrent) == own

\* a step of the second run
StepOther ==
    /\ other # <<>>
    /\ other.pc = "loop"
    /\ other.idx < Len(other.candles)
    /\ other' = StepRun(RunLocals(other, ThisRun))
    /\ UNCHANGED <<config, candles, pc, idx, portfolio, trades, equity_curve, peak,
                   max_drawdown, report>>
    /\ UNCHANGED <<cmpVars, pageVars, histVars>>

\* the second run completes
FinishOther ==
    /\ other # <<>>
    /\ other.pc = "loop"
    /\ other.idx >= Len(other.candles)
    /\ other' = FinishRun(other)
    /\ UNCHANGED <<config, candles, pc, idx, portfolio, trades, equity_curve, peak,
                   max_drawdown, report>>
    /\ UNCHANGED <<cmpVars, pageVars, histVars>>

TwoRunsNext ==
    \/ Step
    \/ Finish
    \/ StepOther
    \/ FinishOther

(***************************************************************************)
(* The inputs of a run: configurations and candle series.                  *)
(***************************************************************************)
SmallPeriods ==
    [rsi_period |-> 2, rsi_oversold |-> 30, rsi_overbought |-> 70,
     macd_fast |-> 2, macd_slow |-> 3, macd_signal |-> 2,
     sma_short |-> 2, sma_long |-> 3]

DefaultPeriods ==
    [rsi_period |-> 14, rsi_oversold |-> 30, rsi_overbought |-> 70,
     macd_fast |-> 12, macd_slow |-> 26, macd_signal |-> 9,
     sma_short |-> 10, sma_long |-> 20]

\* RSI thresholds wide enough for an RSI confidence of 100
WidePeriods == [SmallPeriods EXCEPT !.rsi_oversold = 40, !.rsi_overbought = 60]

AllOn == [use_rsi |-> TRUE, use_macd |-> TRUE, use_sma |-> TRUE]

RunConfig(periods, flags, pct, stop, take) ==
    Spread(Spread(periods, flags),
           [capital |-> Mills(10), position_size_pct |-> pct,
            stop_loss_pct |-> stop, take_profit_pct |-> take])

Configs ==
    {RunConfig(SmallPeriods, AllOn, pct, <<>>, <<>>) : pct \in {5, 20, 100}}
    \cup {RunConfig(SmallPeriods, AllOn, pct, <<5>>, <<10>>) : pct \in {20, 100}}
    \cup {RunConfig(SmallPeriods, AllOn, 20, <<5>>, <<>>),
          RunConfig(SmallPeriods, [AllOn EXCEPT !.use_macd = FALSE, !.use_sma = FALSE],
                    20, <<>>, <<>>),
          RunConfig(SmallPeriods, [AllOn EXCEPT !.use_rsi = FALSE], 20, <<>>, <<>>),
          RunConfig([SmallPeriods EXCEPT !.rsi_period = 1],
                    [AllOn EXCEPT !.use_macd = FALSE, !.use_sma = FALSE], 20, <<5>>, <<>>),
          RunConfig(DefaultPeriods, AllOn, 20, <<>>, <<10>>),
          RunConfig(WidePeriods, AllOn, 20, <<>>, <<>>)}

\* closes of the candles after the warm-up
TailCloses == {8, 10, 13}

\* the close of warm-up candle k (1-based) in each shape of warm-up
WarmClose(shape, k) ==
    CASE shape = "flat" -> 10
      [] shape = "down" -> 10 + ((MIN_CANDLES - k) \div 6)
      [] shape = "up" -> 10 - ((MIN_CANDLES - k) \div 6)

\* candle k is stamped with hour HourOf(k): hourly, with a gap of two hours
\* after the first decision candle
HourOf(k) == IF k > MIN_CANDLES + 1 THEN k + 1 ELSE k - 1

Candle(k, close) == [coin |-> "BTC/USD", timestamp |-> HourOf(k), close |-> close]

SeriesOf(shapes, tails) ==
    {[k \in 1..(MIN_CANDLES + Len(tail)) |->
        Candle(k, IF k <= MIN_CANDLES THEN WarmClose(shape, k) ELSE tail[k - MIN_CANDLES])] :
        shape \in shapes, tail \in tails}

Series ==
    SeriesOf({"flat", "down", "up"}, UNION {[1..n -> TailCloses] : n \in 0..MaxTail})

MaxPairTail == 2

PairConfigs ==
    {RunConfig(WidePeriods, AllOn, 20, <<>>, <<>>),
     RunConfig(SmallPeriods, AllOn, 100, <<5>>, <<10>>)}

\* the series two concurrent runs are given
PairSeries ==
    SeriesOf({"flat", "down"}, UNION {[1..n -> TailCloses] : n \in 1..MaxPairTail})

\* the statements of run() before the loop
StartRun(cfg, cs) ==
    [config |-> cfg, candles |-> cs, pc |-> "loop", idx |-> LoopStart,
     portfolio |-> [cash |-> cfg.capital, positions |-> <<>>],
     trades |-> <<>>,
     equity_curve |-> <<InitialPoint(cfg, cs)>>,
     peak |-> cfg.capital,
     max_drawdown |-> Frac(0, 1),
     report |-> <<>>,
     seed |-> 1]

\* the variables of the run hold the run r
RunIs(r) ==
    /\ portfolio = r.portfolio
    /\ trades = r.trades
    /\ equity_curve = r.equity_curve
    /\ peak = r.peak
    /\ max_drawdown = r.max_drawdown
    /\ pc = r.pc
    /\ idx = r.idx
    /\ report = r.report

EngineStarted ==
    /\ config \in Configs
    /\ candles \in Series
    /\ RunIs(StartRun(config, candles))


EngineIdle ==
    /\ config = <<>>
    /\ candles = <<>>
    /\ pc = "idle"
    /\ idx = 0
    /\ portfolio = [cash |-> 0, positions |-> <<>>]
    /\ trades = <<>>
    /\ equity_curve = <<>>
    /\ peak = 0
    /\ max_drawdown = 0
    /\ report = <<>>
    /\ other = <<>>

(***************************************************************************)
(* Specifications.                                                         *)
(***************************************************************************)
\* The compare page mounted once on any id list over all persisted runs.
InitCompareData ==
    /\ CompareUnmounted
    /\ navLeft = 1
    /\ idPool = RunIds
    /\ PageIdle
    /\ EngineIdle
    /\ HistoryIdle

SpecCompareData == InitCompareData /\ [][CompareNext]_vars

\* The compare page under repeated changes of the URL's id list.
InitCompareNav ==
    /\ CompareUnmounted
    /\ navLeft = MaxNav
    /\ idPool = 1..NavIds
    /\ PageIdle
    /\ EngineIdle
    /\ HistoryIdle

SpecCompareNav == InitCompareNav /\ [][CompareNext]_vars

\* The history page, from its mount to the comparison it navigates to.
InitHistory ==
    /\ HistoryMounted
    /\ CompareUnmounted
    /\ navLeft = 1
    /\ idPool = {}
    /\ PageIdle
    /\ EngineIdle

SpecHistory == InitHistory /\ [][HistoryNext]_vars

\* The run page.
InitPage ==
    /\ PageConstructed
    /\ editsLeft = MaxEdits
    /\ CompareIdle
    /\ EngineIdle
    /\ HistoryIdle

SpecPage == InitPage /\ [][PageNext]_vars

\* The run page when no control of the form is used: presets, resets, runs.
PresetsNext ==
    \/ \E key \in PresetKeys \cup InheritedKeys \cup {"unknown"} : applyPreset(key)
    \/ resetDefaults
    \/ runBacktest
    \/ \E r \in ServerResults : RespOk(r)
    \/ \E detail \in ErrorDetails : RespNotOk(detail)
    \/ \E message \in {"Failed to fetch", "Unexpected end of JSON input"} :
            RequestFailed(message)

InitPresets ==
    /\ PageConstructed
    /\ editsLeft = 0
    /\ CompareIdle
    /\ EngineIdle
    /\ HistoryIdle

SpecPresets == InitPresets /\ [][PresetsNext]_vars

\* The run page after controls of the form were used, and left alone from
\* then on: presets, resets and runs on edited parameters.
InitPageEdited ==
    /\ params \in {[DEFAULTS EXCEPT !.capital = Num(c), !.days = Num(d),
                                      !.position_size_pct = Num(s),
                                      !.use_rsi = Bool(on), !.stop_loss_pct = sl] :
                        c \in {1000, 25}, d \in {90, 0}, s \in {20, 0},
                        on \in BOOLEAN, sl \in {NullV, Num(5)}}
    /\ results = <<>>
    /\ loading = FALSE
    /\ error = ""
    /\ activePreset = "default"
    /\ request = <<>>
    /\ lastOutcome = "none"
    /\ editsLeft = 0
    /\ CompareIdle
    /\ EngineIdle
    /\ HistoryIdle

SpecPageEdited == InitPageEdited /\ [][PresetsNext]_vars

\* The run page after the indicator checkboxes were clicked any number of
\* times: each of the three indicators is enabled or not.
InitPageIndicators ==
    /\ params \in {[DEFAULTS EXCEPT !.use_rsi = Bool(on[1]), !.use_macd = Bool(on[2]),
                                      !.use_sma = Bool(on[3])] :
                        on \in {<<FALSE, FALSE, FALSE>>, <<TRUE, FALSE, FALSE>>,
                                <<FALSE, TRUE, TRUE>>}}
    /\ results = <<>>
    /\ loading = FALSE
    /\ error = ""
    /\ activePreset = "default"
    /\ request = <<>>
    /\ lastOutcome = "none"
    /\ editsLeft = MaxEdits
    /\ CompareIdle
    /\ EngineIdle
    /\ HistoryIdle

SpecPageIndicators == InitPageIndicators /\ [][PageNext]_vars

(***************************************************************************)
(* POST /api/backtest/run: the handler in front of the runner.  pc is      *)
(* "request" while the request waits, "rejected" after an HTTPException.   *)
(***************************************************************************)
\* configurations outside the ranges of the configuration surface
InvalidConfigs ==
    {RunConfig(SmallPeriods, AllOn, 150, <<>>, <<>>),
     RunConfig(SmallPeriods, AllOn, 0, <<>>, <<>>),
     RunConfig([SmallPeriods EXCEPT !.sma_short = 3], AllOn, 20, <<>>, <<>>),
     RunConfig([SmallPeriods EXCEPT !.rsi_period = 0], AllOn, 20, <<>>, <<>>)}

\* series shorter than the warm-up
ShortSeries == {SubSeq(cs, 1, n) : cs \in SeriesOf({"down"}, {<<>>}), n \in {1, MIN_CANDLES - 1}}

\* run_backtest: the candle count is the only check before runner.run(candles)
run_backtest ==
    /\ pc = "request"
    /\ IF Len(candles) < MIN_CANDLES
       THEN /\ pc' = "rejected"
            /\ UNCHANGED <<config, candles, idx, portfolio, trades, equity_curve,
                           peak, max_drawdown, report>>
       ELSE SetRun(StartRun(config, candles))
    /\ UNCHANGED other
    /\ UNCHANGED <<cmpVars, pageVars, histVars>>

ApiNext ==
    \/ run_backtest
    \/ Step
    \/ Finish

\* A request with any configuration, valid or not, and any series.
InitApi ==
    /\ config \in InvalidConfigs \cup {RunConfig(SmallPeriods, AllOn, 20, <<>>, <<>>)}
    /\ candles \in Series \cup ShortSeries
    /\ pc = "request"
    /\ idx = 0
    /\ portfolio = [cash |-> 0, positions |-> <<>>]
    /\ trades = <<>>
    /\ equity_curve = <<>>
    /\ peak = 0
    /\ max_drawdown = 0
    /\ report = <<>>
    /\ other = <<>>
    /\ CompareIdle
    /\ PageIdle
    /\ HistoryIdle

SpecApi == InitApi /\ [][ApiNext]_vars

\* Two runs of the engine executing concurrently: on the same inputs, on
\* series that share their first candles, or on different configurations.
InitTwoRuns ==
    /\ config \in PairConfigs
    /\ candles \in PairSeries
    /\ RunIs(StartRun(config, candles))
    /\ \E cfg \in PairConfigs : \E cs \in PairSeries :
          /\ cs[1].close = candles[1].close
          /\ cs[MIN_CANDLES + 1].close = candles[MIN_CANDLES + 1].close
          /\ cfg = config \/ cs = candles
          /\ other = [StartRun(cfg, cs) EXCEPT !.seed = 2]
    /\ CompareIdle
    /\ PageIdle
    /\ HistoryIdle

SpecTwoRuns == InitTwoRuns /\ [][TwoRunsNext]_vars

\* One run of the backtest engine on any configuration and candle series.
Init ==
    /\ EngineStarted
    /\ other = <<>>
    /\ CompareIdle
    /\ PageIdle
    /\ HistoryIdle

Next == EngineNext

Spec == Init /\ [][Next]_vars

(***************************************************************************)
(* Properties of the compare page (SpecCompareData, SpecCompareNav).        *)
(***************************************************************************)
\* the timestamps of the points of run i
TimesOf(rs, i) ==
    {rs[i].results.equity_curve[k].time : k \in 1..Len(rs[i].results.equity_curve)}

\* the value of run i at time t
ValueAt(rs, i, t) ==
    LET curve == rs[i].results.equity_curve
    IN curve[CHOOSE k \in 1..Len(curve) : curve[k].time = t].value

\* C1 as stated: for two or more compared runs, whatever their names, the
\* merged equity structure has one entry per timestamp of the union of the
\* runs' timestamps, in ascending order, and the entry of timestamp t holds
\* a value for run r (under the key the chart reads for r) exactly when r
\* has a point at t, and then r's own value.
MergedCurveIsUnionPerRun ==
    View = "comparison" =>
        LET mc == mergedCurve(runs)
        IN /\ {mc[k].time : k \in 1..Len(mc)} =
                  UNION {TimesOf(runs, i) : i \in 1..Len(runs)}
           /\ \A j, k \in 1..Len(mc) : j < k => LexLess(mc[j].time, mc[k].time)
           /\ \A k \in 1..Len(mc) : \A i \in 1..Len(runs) :
                 /\ (Label(runs, i) \in DOMAIN mc[k].vals)
                        <=> (mc[k].time \in TimesOf(runs, i))
                 /\ mc[k].time \in TimesOf(runs, i) =>
                        mc[k].vals[Label(runs, i)] = ValueAt(runs, i, mc[k].time)

\* the keys of the whole configuration of a run
ConfigKeys == DOMAIN DefaultParams

\* the runs do not all hold the same value of key
ValuesDiffer(rs, key) ==
    \E i, j \in 1..Len(rs) : ParamValue(rs[i], key) # ParamValue(rs[j], key)

\* C2 as stated: the parameter-difference set is the set of the parameters
\* of the whole configuration (symbol, timeframe, days, capital, position
\* size, enable flags, indicator numbers, stop-loss, take-profit) on which
\* at least two compared runs hold different values.
DiffParamsOverWholeConfig ==
    View = "comparison" =>
        {diffParams(runs)[k] : k \in 1..Len(diffParams(runs))} =
            {key \in ConfigKeys : ValuesDiffer(runs, key)}

\* three runs whose configurations differ in rsi_oversold and in nothing else
ThreeDifferOnlyInRsiOversold ==
    /\ View = "comparison"
    /\ Len(runs) = 3
    /\ ValuesDiffer(runs, "rsi_oversold")
    /\ \A key \in ConfigKeys \ {"rsi_oversold"} : ~ValuesDiffer(runs, key)

\* C3: Scenario D: when three reports are compared whose configurations
\* differ only in rsi_oversold, the parameter-diff set is exactly
\* {rsi_oversold} and the metrics table has three run columns, one per run
\* in the order of the runs.
ScenarioD ==
    ThreeDifferOnlyInRsiOversold =>
        /\ diffParams(runs) = <<"rsi_oversold">>
        /\ Len(metricsColumns(runs)) = 3
        /\ \A i \in 1..3 :
              /\ metricsColumns(runs)[i].key = runs[i].id
              /\ metricsColumns(runs)[i].header = Label(runs, i)

\* Scenario D with two of the three runs agreeing on rsi_oversold
ScenarioDTwoAgree ==
    /\ ThreeDifferOnlyInRsiOversold
    /\ runs[1].params.rsi_oversold = runs[2].params.rsi_oversold
    /\ runs[3].params.rsi_oversold # runs[1].params.rsi_oversold
    /\ runs[1].id # runs[2].id

\* C4 as stated: whatever the id-list changes and fetch completions, a
\* comparison is displayed only from two or more completely fetched runs:
\* while the current id list has fewer than 2 ids nothing is being
\* fetched for it and no comparison is displayed, and once a fetch of
\* the current id list has failed an error is displayed and no comparison.
ComparisonOnlyFromFetchedRuns ==
    /\ View = "comparison" => Len(runs) >= 2
    /\ (navCount > 0 /\ Len(searchIds) < 2) =>
          /\ View # "comparison"
          /\ \A b \in 1..Len(batches) : batches[b].gen # navCount
    /\ lastFailed => View = "error"

\* C26 as stated: the runs on display are those of the id list of the
\* current URL: whenever the comparison is shown, its runs are the runs of
\* that id list, in its order, whichever batch of fetches completed last.
DisplayedRunsMatchUrl ==
    (navCount > 0 /\ View = "comparison") =>
        [k \in 1..Len(runs) |-> runs[k].id] = searchIds

(***************************************************************************)
(* Properties of the history page (SpecHistory).                           *)
(***************************************************************************)
\* the ids of a selection, as a set
Members(set) == {set[k] : k \in 1..Len(set)}

\* C23: the selected set never holds more than 5 run ids (each once), and
\* on it a toggle of a selected id removes that id, a toggle of an
\* unselected id adds it when fewer than 5 are selected and otherwise
\* leaves the set as it is.
SelectionAtMostFive ==
    /\ Len(selected) <= 5
    /\ Cardinality(Members(selected)) = Len(selected)
    /\ \A id \in 1..NumListed :
          LET next == toggle(selected, id)
          IN IF Has(selected, id)
             THEN Members(next) = Members(selected) \ {id}
             ELSE IF Len(selected) < 5
             THEN Members(next) = Members(selected) \cup {id}
             ELSE next = selected

\* C23 witness: five of the listed runs are selected and another is not.
FiveSelectedOneLeft ==
    /\ Len(selected) = 5
    /\ \E id \in 1..NumListed : Has(histRuns, id) /\ ~Has(selected, id)

\* the step flips the membership of id: a selected run is unselected after
\* it, and an unselected run is selected unless 5 runs already are
Flipped(id) ==
    IF Has(selected, id) THEN ~Has(selected', id)
    ELSE Len(selected) < 5 => Has(selected', id)

\* C24 as stated: every click on a run of the list, on its row or on its
\* checkbox, flips the membership of that run in the selected set once.
EachClickFlipsOnce ==
    [][\A id \in 1..NumListed :
          (ClickRow(id) \/ ClickCheckbox(id)) => Flipped(id)]_vars

\* C25: the Compare button is there only while 2 or more runs are
\* selected, so after the navigation it triggers the URL holds between 2 and
\* 5 run ids, no two the same, and the lines of the compared runs have
\* colours that differ from one another.
CompareCarriesDistinctRuns ==
    navCount > 0 =>
       /\ Len(searchIds) >= 2 /\ Len(searchIds) <= 5
       /\ searchIds = selected
       /\ \A i, j \in 1..Len(searchIds) : i # j => searchIds[i] # searchIds[j]
       /\ View = "comparison" =>
             /\ Len(runs) = Len(searchIds)
             /\ \A i, j \in 1..Len(runs) : i # j => Stroke(i - 1) # Stroke(j - 1)

\* C25 witness: the comparison of five selected runs is on display.
FiveRunsCompared ==
    /\ navCount > 0
    /\ View = "comparison"
    /\ Len(runs) = 5

(***************************************************************************)
(* Properties of the run page (SpecPage).                                  *)
(***************************************************************************)
\* C5: starting runBacktest clears the previous results and error; an
\* attempt that finished with a non-OK response or a failed request leaves
\* results null and error non-empty, one that finished with an OK response
\* leaves results set and error empty; results and error are never both set.
RunOutcomeNeverPartial ==
    /\ ~(results # <<>> /\ error # "")
    /\ request # <<>> => (loading /\ results = <<>> /\ error = "")
    /\ (request = <<>> /\ lastOutcome = "ok") => (results # <<>> /\ error = "")
    /\ (request = <<>> /\ lastOutcome = "failed") => (results = <<>> /\ error # "")

\* a new attempt is in flight after an attempt that had shown a report
RunRestartedAfterReport ==
    /\ request # <<>>
    /\ lastOutcome = "ok"
    /\ loading

\* the options of the configuration surface, under the names the spec gives
RecognizedOptions ==
    {"symbol", "timeframe", "days", "capital", "position_size_pct",
     "rsi_enabled", "rsi_period", "rsi_oversold", "rsi_overbought",
     "macd_enabled", "macd_fast", "macd_slow", "macd_signal",
     "sma_enabled", "sma_short", "sma_long",
     "stop_loss_pct", "take_profit_pct"}

\* the same options with the enable flags under the names of Params
OptionsOfParams ==
    (RecognizedOptions \ {"rsi_enabled", "macd_enabled", "sma_enabled"})
        \cup {"use_rsi", "use_macd", "use_sma"}

\* C17 as stated: after any edits, preset applications and resets, the body
\* of the request the run page sends holds every recognized option under
\* its name (rsi_enabled, macd_enabled, sma_enabled and the others).
BodyHoldsRecognizedOptions ==
    request # <<>> => RecognizedOptions \subseteq DOMAIN request[1].body

\* C17: after any edits, preset applications and resets, the form state and
\* the body of the request the run page sends hold every option of the
\* configuration surface, the three enable flags under the names use_rsi,
\* use_macd and use_sma, together with the run's name, and nothing else.
BodyHoldsOptionsOfParams ==
    /\ DOMAIN params = OptionsOfParams \cup {"name"}
    /\ request # <<>> =>
          /\ DOMAIN request[1].body = OptionsOfParams \cup {"name"}
          /\ \A k \in {"rsi_enabled", "macd_enabled", "sma_enabled"} :
                k \notin DOMAIN request[1].body

\* a request sent after an edit and the "trend" preset, RSI switched off
RequestSentAfterPreset ==
    /\ request # <<>>
    /\ editsLeft = 0
    /\ activePreset = "trend"
    /\ request[1].body.use_rsi = Bool(FALSE)
    /\ request[1].body.stop_loss_pct = Num(5)

\* one of the three indicators is enabled in p
SomeIndicator(p) == IsTrue(p.use_rsi) \/ IsTrue(p.use_macd) \/ IsTrue(p.use_sma)

\* C27: at most one request of the run page is in flight, the body of a
\* request in flight has an indicator enabled, and the Run button is
\* disabled while a request is in flight and while no indicator is enabled.
OneRequestWithAnIndicator ==
    /\ Len(request) <= 1
    /\ \A k \in 1..Len(request) : SomeIndicator(request[k].body)
    /\ request # <<>> => (loading /\ ~ENABLED runBacktest)
    /\ ~SomeIndicator(params) => ~ENABLED runBacktest

\* C27 witness: no indicator is enabled any more while the request sent
\* before the last one was switched off is in flight.
RequestInFlightAllIndicatorsOff ==
    /\ Len(request) = 1
    /\ ~SomeIndicator(params)
    /\ loading

\* the parameters applyPreset carries over
KeptFields == {"name", "symbol", "timeframe", "days", "capital"}

\* the step leaves the kept parameters as they are, gives every other
\* parameter the value of preset key, or the default when the preset has
\* none, makes key the active preset, and taking it again changes nothing
PresetTaken(key) ==
    /\ activePreset' = key
    /\ \A k \in KeptFields : params'[k] = params[k]
    /\ \A k \in DOMAIN DEFAULTS \ KeptFields :
          params'[k] = IF k \in DOMAIN ParamsOfPreset(key)
                       THEN ParamsOfPreset(key)[k] ELSE DEFAULTS[k]
    /\ Spread(Spread(DEFAULTS, KeptByPreset(params')), ParamsOfPreset(key)) = params'

PresetKeysTried == PresetKeys \cup InheritedKeys \cup {"unknown"}

\* C28 as stated: applyPreset(k) for a preset k keeps name, symbol,
\* timeframe, days and capital and sets every other parameter to the
\* preset's value or to the default, whatever was edited before, and a second
\* application changes nothing; applyPreset with any other key changes
\* nothing; resetDefaults sets every parameter to its default and the
\* active preset to "default".
PresetFrameAnyOtherKey ==
    [][/\ \A key \in PresetKeysTried :
             applyPreset(key) =>
                 IF key \in PresetKeys THEN PresetTaken(key)
                 ELSE UNCHANGED <<params, activePreset>>
       /\ resetDefaults => (params' = DEFAULTS /\ activePreset' = "default")]_vars

\* C28 with the keys told apart: as above for a preset k; applyPreset with a
\* key that PRESETS has no property for changes nothing, and with the name
\* of a property every object inherits ("constructor", "toString") it
\* makes that name the active preset and sets every parameter but the five
\* kept ones to its default.
PresetFrameOwnAndInheritedKeys ==
    [][/\ \A key \in PresetKeys \cup InheritedKeys :
             (activePreset' = key /\ applyPreset(key)) => PresetTaken(key)
       /\ \A key \in PresetKeysTried \ (PresetKeys \cup InheritedKeys) :
             applyPreset(key) => UNCHANGED <<params, activePreset>>
       /\ resetDefaults => (params' = DEFAULTS /\ activePreset' = "default")]_vars

\* C28 witness: a preset was applied after the capital and the days were
\* edited.
PresetAppliedAfterCapitalEdit ==
    /\ activePreset = "momentum"
    /\ params.capital = Num(25)
    /\ params.days = Num(0)
    /\ params.rsi_period = Num(10)
    /\ params.position_size_pct = DEFAULTS.position_size_pct

\* p is a number greater than 0
Positive(v) == v.tag = "number" /\ v.n > 0

\* the strategy parameters p form a valid configuration
ValidParams(p) ==
    /\ Positive(p.position_size_pct) /\ p.position_size_pct.n <= 100
    /\ \A k \in {"rsi_period", "macd_fast", "macd_slow", "macd_signal",
                 "sma_short", "sma_long"} : Positive(p[k])
    /\ p.sma_short.n < p.sma_long.n
    /\ p.macd_fast.n < p.macd_slow.n
    /\ p.rsi_oversold.tag = "number" /\ p.rsi_overbought.tag = "number"
    /\ p.rsi_oversold.n < p.rsi_overbought.n
    /\ SomeIndicator(p)
    /\ \A k \in {"stop_loss_pct", "take_profit_pct"} : p[k].tag = "null" \/ Positive(p[k])

\* C29: after preset applications and resets only, the parameters of the
\* form, and those of every request sent, are a valid configuration.
PresetsGiveValidParams ==
    /\ ValidParams(params)
    /\ \A k \in 1..Len(request) : ValidParams(request[k].body)

\* C29 witness: a request is in flight with the parameters of the
\* "conservative" preset, applied after another preset.
ConservativeRequestInFlight ==
    /\ Len(request) = 1
    /\ activePreset = "conservative"
    /\ request[1].body.sma_short = Num(20)
    /\ request[1].body.sma_long = Num(50)
    /\ request[1].body.rsi_period = DEFAULTS.rsi_period

\* C30 as stated: the preset highlighted as active describes the current
\* parameters: when the active preset is k, every parameter other than
\* name, symbol, timeframe, days and capital has the value the defaults
\* overlaid with preset k give it.
ActivePresetDescribesParams ==
    activePreset \in PresetKeys =>
        \A k \in DOMAIN DEFAULTS \ KeptFields :
            params[k] = Spread(DEFAULTS, PresetParams(activePreset))[k]

(***************************************************************************)
(* Properties of a run of the engine (specification Spec).                 *)
(***************************************************************************)
Last(seq) == seq[Len(seq)]

\* C6: in every run, and in the report of every completed run, the first
\* point of the equity curve carries the starting capital as its value and
\* the timestamp of the first candle of the series, whatever the
\* configuration and whatever trades were made.
FirstPointIsStartingCapital ==
    /\ pc \in {"loop", "done"} =>
          /\ equity_curve[1].value = config.capital
          /\ equity_curve[1].time = Iso(candles[1].timestamp)
    /\ pc = "done" =>
          /\ report[1].equity_curve[1].value = report[1].starting_capital
          /\ report[1].starting_capital = config.capital
          /\ report[1].equity_curve[1].time = Iso(candles[1].timestamp)

\* a completed run that traded and whose value moved away from the capital
FirstPointAfterTrades ==
    /\ pc = "done"
    /\ Len(trades) >= 2
    /\ Len(report[1].equity_curve) >= 3
    /\ report[1].final_value # config.capital

\* C7: the equity curve holds the initial point and one point for each step
\* taken from index MIN_CANDLES, the point of a step carries the timestamp of
\* the candle of that step, and the timestamps of the curve are strictly
\* increasing.
CurveTimesStrictlyIncrease ==
    pc \in {"loop", "done"} =>
        /\ Len(equity_curve) = 1 + (idx - MIN_CANDLES)
        /\ \A k \in 2..Len(equity_curve) :
              equity_curve[k].time = Iso(candles[MIN_CANDLES + k - 1].timestamp)
        /\ \A j, k \in 1..Len(equity_curve) :
              j < k => LexLess(equity_curve[j].time, equity_curve[k].time)

\* every candle after the warm-up has had its step, across the gap in the hours
CurveOverAllSteps ==
    /\ pc = "done"
    /\ Len(candles) = MIN_CANDLES + MaxTail
    /\ Len(equity_curve) = 1 + MaxTail

\* C8: cash is never negative, through buys, sells on a signal and closes
\* forced by stop-loss or take-profit, for position sizes up to 100 percent.
CashNeverNegative ==
    /\ portfolio.cash >= 0
    /\ pc \in {"loop", "done"} =>
          config.position_size_pct > 0 /\ config.position_size_pct <= 100

\* all the cash was spent on a buy, and a close was forced later
AllInThenForcedClose ==
    /\ pc = "loop"
    /\ config.position_size_pct = 100
    /\ \E k \in 1..Len(trades) : trades[k].side = "buy" /\ trades[k].amount = config.capital
    /\ \E k \in 1..Len(trades) : trades[k].side = "sell"
    /\ config.stop_loss_pct # <<>>

\* C9: at every step at most one position of an instrument is open, also
\* when a position was closed by a risk overlay and the signals of the
\* same step were acted on afterwards.
AtMostOneOpenPosition ==
    pc \in {"loop", "done"} =>
        \A c \in {candles[k].coin : k \in 1..Len(candles)} :
            Cardinality(OpenPositions(portfolio, c)) <= 1

\* a step sold the open position and bought again on the same candle
ClosedAndReopenedInOneStep ==
    /\ pc = "loop"
    /\ \E k \in 1..(Len(trades) - 1) :
          /\ trades[k].side = "sell"
          /\ trades[k + 1].side = "buy"
          /\ trades[k].timestamp = trades[k + 1].timestamp
    /\ Cardinality(OpenPositions(portfolio, candles[1].coin)) = 1

\* C10 as stated: at the end of a run final_value is the cash plus the open
\* quantities at the last close, and it is the value of the last point of
\* the equity curve.
FinalValueIsLastPoint ==
    pc = "done" =>
        /\ report[1].final_value = PortfolioValue(portfolio, Last(candles).close)
        /\ report[1].final_value = Last(report[1].equity_curve).value

\* C10: at the end of a run final_value is the cash plus the open quantities
\* at the last close; the last point of the equity curve holds final_value
\* rounded to two decimals when a step was taken, and the starting capital,
\* which is then final_value, when none was.
FinalValueRoundsToLastPoint ==
    pc = "done" =>
        /\ report[1].final_value = PortfolioValue(portfolio, Last(candles).close)
        /\ Last(report[1].equity_curve).value =
              IF Len(report[1].equity_curve) > 1
              THEN RoundCents(report[1].final_value)
              ELSE report[1].final_value

\* a completed run with cash left and a position still open, bought at a
\* price other than the last close
FinalValueWithOpenPosition ==
    /\ pc = "done"
    /\ portfolio.cash > 0
    /\ HasOpen(portfolio, candles[1].coin)
    /\ OpenPosition(portfolio, candles[1].coin).entry_price # Last(candles).close
    /\ Len(report[1].equity_curve) > 2

\* the value of the portfolio at the close of the candle of the step just taken
StepValue == PortfolioValue(portfolio', candles[idx'].close)

\* no value of the curve is below the largest of the values before it
CurveNeverFalls(curve) ==
    \A j, k \in 1..Len(curve) : j < k => curve[k].value >= curve[j].value

\* the largest (peak - value) / peak over the points 2..k of the curve, the
\* peak being the largest value up to and including the point
RECURSIVE CurveDrawdown(_, _)
CurveDrawdown(curve, k) ==
    IF k < 2 THEN Frac(0, 1)
    ELSE LET before == CurveDrawdown(curve, k - 1)
             top == CHOOSE v \in {curve[j].value : j \in 1..k} :
                        \A j \in 1..k : curve[j].value <= v
             here == Drawdown(top, curve[k].value)
         IN IF FracGreater(here, before) THEN here ELSE before

\* C11 as stated: max_drawdown_pct (in hundredths of a percent) is never
\* negative, is 0 exactly when no equity-curve value is below the running
\* peak of the values before it, and is the largest (peak - value) / peak
\* * 100 over the steps.
DrawdownIsExactMaximum ==
    pc = "done" =>
        LET pct == report[1].max_drawdown_pct
            largest == CurveDrawdown(report[1].equity_curve, Len(report[1].equity_curve))
        IN /\ pct >= 0
           /\ (pct = 0) <=> CurveNeverFalls(report[1].equity_curve)
           /\ pct * max_drawdown.den = max_drawdown.num * 10000
           /\ pct * largest.den = largest.num * 10000

\* C11: at each step the peak is raised to the value of the step before the
\* drawdown (peak - value) / peak is taken, the running maximum of the
\* drawdowns is retained, and max_drawdown_pct is that maximum times 100
\* rounded to two decimals: never negative, and 0 when no step value was
\* below the running peak.
DrawdownIsRoundedMaximum ==
    [][/\ (pc = "loop" /\ idx' = idx + 1) =>
            /\ peak' = Max(peak, StepValue)
            /\ peak' >= StepValue
            /\ max_drawdown' =
                  IF FracGreater(Frac(peak' - StepValue, peak'), max_drawdown)
                  THEN Frac(peak' - StepValue, peak') ELSE max_drawdown
            /\ max_drawdown'.num >= 0
       /\ pc' = "done" =>
            /\ report'[1].max_drawdown_pct >= 0
            /\ report'[1].max_drawdown_pct =
                  RoundDiv(max_drawdown'.num * 10000, max_drawdown'.den)
            /\ max_drawdown'.num = 0 => report'[1].max_drawdown_pct = 0]_vars

\* a completed run whose value rose above the capital and fell from that peak
\* by a ratio that is not a whole number of hundredths of a percent
DrawdownFromRaisedPeak ==
    /\ pc = "done"
    /\ peak > config.capital
    /\ max_drawdown.num > 0
    /\ (max_drawdown.num * 10000) % max_drawdown.den # 0

\* the sells of the trade log that close a position opened by an earlier buy
ClosingSells(ts) ==
    {k \in 1..Len(ts) :
        /\ ts[k].side = "sell"
        /\ \E j \in 1..(k - 1) : ts[j].side = "buy" /\ ts[j].coin = ts[k].coin}

\* the buy a closing sell is matched with: the latest earlier buy of the coin
MatchedBuy(ts, k) ==
    CHOOSE j \in 1..(k - 1) :
        /\ ts[j].side = "buy" /\ ts[j].coin = ts[k].coin
        /\ \A i \in (j + 1)..(k - 1) : ~(ts[i].side = "buy" /\ ts[i].coin = ts[k].coin)

\* C12: in the report of a completed run every closing sell is counted once,
\* as a win when its price exceeds the price of its matched buy and as a
\* loss otherwise, so win_count + loss_count is the number of completed
\* buy/sell pairs and never exceeds it; a position still open at the end
\* adds to neither count.
WinsAndLossesCountClosedPairs ==
    pc = "done" =>
        LET ts == report[1].trades
            wins == {k \in ClosingSells(ts) : ts[k].price > ts[MatchedBuy(ts, k)].price}
        IN /\ report[1].win_count = Cardinality(wins)
           /\ report[1].loss_count = Cardinality(ClosingSells(ts) \ wins)
           /\ report[1].win_count + report[1].loss_count <= Len(ts) \div 2
           /\ report[1].trade_count = Len(ts)

\* a completed run with a lost pair and a position opened afterwards and
\* still open at the end
LostPairThenOpenPosition ==
    /\ pc = "done"
    /\ Len(trades) = 3
    /\ HasOpen(portfolio, candles[1].coin)
    /\ report[1].loss_count = 1
    /\ report[1].win_count = 0

\* every candle of the series closes at the same price
ConstantClose(cs) == \A k \in 1..Len(cs) : cs[k].close = cs[1].close

\* C16: Scenario A: a completed run on a series of constant close has made
\* no trade and has a total return and a buy-and-hold return of 0, whatever
\* the configuration and the indicators enabled.
FlatSeriesNoTrades ==
    (pc = "done" /\ ConstantClose(candles)) =>
        /\ report[1].trade_count = 0
        /\ report[1].trades = <<>>
        /\ report[1].total_return_pct.num = 0
        /\ report[1].buy_hold_return_pct.num = 0
        /\ report[1].final_value = config.capital

\* a completed run over a constant series with steps after the warm-up
FlatSeriesRunCompleted ==
    /\ pc = "done"
    /\ ConstantClose(candles)
    /\ Len(candles) = MIN_CANDLES + MaxTail
    /\ Len(report[1].equity_curve) = 1 + MaxTail

\* the book as the signal-driven action of the coming step finds it
BookAtSignals ==
    RiskOverlay(config, [portfolio |-> portfolio, trades |-> trades],
                candles[idx + 1].coin, candles[idx + 1])

\* the dominant signal of the coming step has no trade to make: it is
\* bearish with no position open, or bullish with a position open
DominantSignalIdle ==
    LET signals == process(config, Window(candles, idx))
    IN /\ signals # <<>>
       /\ \/ /\ Best(signals).direction = "bearish"
             /\ ~HasOpen(BookAtSignals.portfolio, candles[idx + 1].coin)
          \/ /\ Best(signals).direction = "bullish"
             /\ HasOpen(BookAtSignals.portfolio, candles[idx + 1].coin)

\* C19: a step whose dominant signal is bearish while no position is open,
\* or bullish while a position is already open, leaves cash, the positions
\* and the trade log as its signal-driven action found them.
IdleSignalChangesNothing ==
    [][(pc = "loop" /\ idx < Len(candles) /\ DominantSignalIdle) =>
           /\ portfolio' = BookAtSignals.portfolio
           /\ trades' = BookAtSignals.trades]_vars

\* C19 witness: the step just taken had a bullish dominant signal while the
\* position bought at an earlier candle was open, and it made no trade.
BullishStepWithOpenPosition ==
    /\ pc = "loop"
    /\ idx > LoopStart
    /\ process(config, Window(candles, idx - 1)) # <<>>
    /\ Best(process(config, Window(candles, idx - 1))).direction = "bullish"
    /\ HasOpen(portfolio, candles[idx].coin)
    /\ OpenPosition(portfolio, candles[idx].coin).opened_at < candles[idx].timestamp
    /\ \A k \in 1..Len(trades) : trades[k].timestamp # candles[idx].timestamp

\* the position open before the coming step, and the candle of that step
HeldPosition == OpenPosition(portfolio, candles[idx + 1].coin)

\* the unrealized loss of the held position at the coming candle exceeds the
\* configured stop-loss percentage
StopLossExceeded ==
    /\ config.stop_loss_pct # <<>>
    /\ (HeldPosition.entry_price - candles[idx + 1].close) * 100
          > config.stop_loss_pct[1] * HeldPosition.entry_price

\* the unrealized gain of the held position at the coming candle exceeds the
\* configured take-profit percentage
TakeProfitExceeded ==
    /\ config.take_profit_pct # <<>>
    /\ (candles[idx + 1].close - HeldPosition.entry_price) * 100
          > config.take_profit_pct[1] * HeldPosition.entry_price

\* the dominant signal of the coming step is bearish
DominantBearish ==
    LET signals == process(config, Window(candles, idx))
    IN signals # <<>> /\ Best(signals).direction = "bearish"

SourcePriority(sig) ==
    CASE sig.source \in {"technical/rsi_oversold", "technical/rsi_overbought"} -> 1
      [] sig.source = "technical/macd_crossover" -> 2
      [] sig.source \in {"technical/sma_golden_cross", "technical/sma_death_cross"} -> 3

\* the signals of the coming step
StepSignals == process(config, Window(candles, idx))

\* the dominant signal is one of the step's signals, none has a higher
\* confidence, and of those of the same confidence none comes earlier in
\* the priority order
DominantByPriority(signals) ==
    LET best == Best(signals)
    IN /\ \E k \in 1..Len(signals) : signals[k] = best
       /\ \A k \in 1..Len(signals) :
             /\ signals[k].confidence <= best.confidence
             /\ signals[k].confidence = best.confidence =>
                    SourcePriority(best) <= SourcePriority(signals[k])

BuysAndSellsAlternate ==
    /\ \A k \in 1..Len(trades) :
          trades[k].side = IF k % 2 = 1 THEN "buy" ELSE "sell"
    /\ Len(portfolio.positions) = (Len(trades) + 1) \div 2
    /\ \A j \in 1..Len(portfolio.positions) :
          LET pos == portfolio.positions[j]
              buy == trades[2 * j - 1]
          IN /\ pos.opened_at = buy.timestamp
             /\ pos.entry_price = buy.price
             /\ pos.quantity = buy.quantity
             /\ IF 2 * j <= Len(trades)
                THEN /\ pos.closed_at = <<trades[2 * j].timestamp>>
                     /\ pos.exit_price = <<trades[2 * j].price>>
                     /\ trades[2 * j].quantity = buy.quantity
                ELSE pos.closed_at = <<>>

\* a step keeps the trades of the log and the closed positions as they are
LogAndClosedPositionsKept ==
    /\ Len(trades') >= Len(trades)
    /\ SubSeq(trades', 1, Len(trades)) = trades
    /\ Len(portfolio'.positions) >= Len(portfolio.positions)
    /\ \A j \in 1..Len(portfolio.positions) :
          portfolio.positions[j].closed_at # <<>> =>
              portfolio'.positions[j] = portfolio.positions[j]

\* C22: the trades of the instrument alternate buy, sell, buy, ... starting
\* with a buy, every sell closes the position opened by the buy before it, a
\* later buy creates a new position, and no step changes or removes a trade
\* of the log or a closed position.
TradesAlternateAndStay ==
    /\ [](pc \in {"loop", "done"} => BuysAndSellsAlternate)
    /\ [][LogAndClosedPositionsKept]_vars

\* C22 witness: a position was closed and a later buy made a second one
\* beside it.
ClosedPositionBesideFreshOne ==
    /\ pc \in {"loop", "done"}
    /\ Len(trades) >= 3
    /\ Len(portfolio.positions) >= 2
    /\ portfolio.positions[1].closed_at # <<>>
    /\ portfolio.positions[2].opened_at >= portfolio.positions[1].closed_at[1]

(***************************************************************************)
(* Properties of the run endpoint (specification SpecApi).                 *)
(***************************************************************************)
\* the ranges of the configuration surface
ValidConfig(cfg) ==
    /\ cfg.position_size_pct > 0 /\ cfg.position_size_pct <= 100
    /\ \A k \in {"rsi_period", "macd_fast", "macd_slow", "macd_signal",
                 "sma_short", "sma_long"} : cfg[k] > 0
    /\ cfg.sma_short < cfg.sma_long

\* C18 as stated: a request with an invalid configuration or with fewer
\* than MIN_CANDLES candles is rejected before the first step: once it is
\* handled it is in the rejected state, no trade was executed, the
\* portfolio was not touched and there is no report.
InvalidRequestRejected ==
    (pc # "request" /\ (~ValidConfig(config) \/ Len(candles) < MIN_CANDLES)) =>
        /\ pc = "rejected"
        /\ trades = <<>>
        /\ portfolio = [cash |-> 0, positions |-> <<>>]
        /\ equity_curve = <<>>
        /\ report = <<>>

(***************************************************************************)
(* Properties of two concurrent runs (specification SpecTwoRuns).          *)
(***************************************************************************)
\* the signals of the step on candle k (1-based) of a run with these inputs
SignalsAt(cfg, cs, k) == process(cfg, Window(cs, k - 1))

\* two signals of opposite directions share the largest confidence
OpposedTie(signals) ==
    \E i, j \in 1..Len(signals) :
        /\ signals[i].direction # signals[j].direction
        /\ signals[i].confidence = signals[j].confidence
        /\ \A m \in 1..Len(signals) : signals[m].confidence <= signals[i].confidence

AgreeUpTo(n) ==
    /\ n <= Len(candles) /\ n <= Len(other.candles)
    /\ \A k \in 1..n : other.candles[k] = candles[k]

\* the trades of ts made up to the time of candle n of the first run
TradesUpTo(ts, n) == SelectSeq(ts, LAMBDA t : t.timestamp <= candles[n].timestamp)

\* C14: when the series of two runs of the same configuration agree on the
\* candles up to and including that of a step, the runs have the same
\* trade log and the same equity-curve points up to that step, and the
\* same portfolio, peak and drawdown right after it: nothing decided at a
\* step depends on a later candle.
NoLookahead ==
    (other # <<>> /\ other.config = config) =>
        \A n \in (MIN_CANDLES + 1)..Len(candles) :
            (AgreeUpTo(n) /\ idx >= n /\ other.idx >= n) =>
                /\ SubSeq(other.equity_curve, 1, n - MIN_CANDLES + 1)
                      = SubSeq(equity_curve, 1, n - MIN_CANDLES + 1)
                /\ TradesUpTo(other.trades, n) = TradesUpTo(trades, n)
                /\ (idx = n /\ other.idx = n) =>
                      /\ other.portfolio = portfolio
                      /\ other.peak = peak
                      /\ other.max_drawdown = max_drawdown

\* two runs of one configuration whose series part after a step in which a
\* trade was made, and whose later trades differ
SeriesPartAfterTrade ==
    /\ other # <<>>
    /\ other.config = config
    /\ other.candles # candles
    /\ AgreeUpTo(MIN_CANDLES + 1)
    /\ idx > MIN_CANDLES + 1 /\ other.idx > MIN_CANDLES + 1
    /\ Len(TradesUpTo(trades, MIN_CANDLES + 1)) > 0
    /\ other.trades # trades

====
